---- MODULE Spec2Model ----
(***************************************************************************)
(* Model of the price recorder of Icebitz/trading-bot                      *)
(* (src/modules/recorder.py, src/modules/historical.py).                   *)
(*                                                                         *)
(* Time is counted in whole minutes.  A naive timestamp is the wall-clock  *)
(* minute in the reference timezone (Asia/Tokyo); an aware UTC timestamp   *)
(* is the minute since the same origin in UTC, so wall = utc + JstOffset.  *)
(* Prices are integers in thousandths, so that rounding to two decimals    *)
(* (a multiple of 10) is a real conversion.                                *)
(***************************************************************************)
EXTENDS Integers, Sequences, FiniteSets, TLC

\* ---------------------------------------------------------------- bounds
MaxStep == 2        \* longest ordinary pause between two ticks, in minutes
MaxNow == 1         \* the clock stops advancing after this many minutes (plus one outage)
MaxHist == 2        \* longest list the historical source returns
MaxBatch == 2       \* longest batch handed to save_recovered_data
MaxFailures == 4    \* cap of the consecutive-failure counter in the model
MaxVersion == 2     \* save_recovered_data is not called once the file had this many writes
MaxSamples == 3        \* samples of a series given to gap detection
MaxGapTime == 5        \* latest minute of such a sample
MaxClock == 130        \* latest second of the clock read to the second
MaxCandle == 4         \* latest open time, in minutes, of a candle of the source
PageLimit == 2         \* candles per page (`limit` of fetch_minute_prices, scaled)
MaxRows == 4           \* rows of a price series given to the signal engine
MaxPrice == 4          \* highest price of such a series
MaxWindow == 3         \* longest moving-average window
MaxGiven == 3          \* rows of a series given with its moving averages
MaxTradeRows == 4      \* rows of a series given to the backtester
MaxRuns == 2           \* calls of run_backtest on one Backtester
MaxTrace == 3          \* entries of a trace given to calculate_max_drawdown
MaxResults == 4        \* rows of `results` that are kept track of
MaxCycles == 4         \* polling cycles of the signal monitor
MaxColumn == 2         \* rows of a signal column the monitor reads

\* ------------------------------------------------------- program constants
JstOffset == 540                  \* pytz 'Asia/Tokyo' is UTC+9h, in minutes
interval == 60                    \* Recorder(interval=60), seconds
max_consecutive_failures == 3

\* -------------------------------------------------------------- data types
None == <<>>
Some(x) == <<x>>

LivePrices == {1004, 1026}        \* prices the ticker endpoint supplies
HistPrices == {1016}              \* close prices the klines endpoint supplies
BatchPrices == {1004, 1016}       \* prices handed to save_recovered_data
InitPrices == {990}               \* prices of the rows of the initial file

Row(t, p) == [timestamp |-> t, price |-> p]

Missing == [kind |-> "missing", rows |-> <<>>]
Empty == [kind |-> "empty", rows |-> <<>>]
Garbage == [kind |-> "garbage", rows |-> <<>>]
NoColumn == [kind |-> "nocol", rows |-> <<>>]
Csv(rows) == [kind |-> "csv", rows |-> rows]
\* a CSV whose last row carries a timestamp that pd.to_datetime rejects
BadLast == [kind |-> "badlast", rows |-> <<>>]

VARIABLES
    file,                  \* content of self.filename
    mtime,                 \* os.path.getmtime(self.filename), a version count
    now,                   \* wall clock, minute in the reference timezone
    consecutive_failures,  \* self.consecutive_failures
    cache,                 \* self._last_timestamp_cache
    cache_mtime,           \* self._last_timestamp_file_mtime
    pc,                    \* "idle" (tick due), "writing" (inside to_csv),
                           \* "sleeping" (between ticks), "stopped" (operator
                           \* interrupt), "crashed" (uncaught exception)
    pending,               \* the frame to_csv is writing
    written,               \* chunks to_csv has put on disk so far
    missed,                \* minutes the last completed tick found missing
                           \* and could not fetch
    merged,                \* batch of the last merge that completed
    obs,                   \* what the operation in progress / last finished did
    streak,                \* live fetches that failed since the last success
    probe                  \* input and result of a function examined on its own

vars == <<file, mtime, now, consecutive_failures, cache, cache_mtime, pc,
          pending, written, missed, merged, obs, streak, probe>>

\* ------------------------------------------------------- sequence helpers
Timestamps(s) == {s[i].timestamp : i \in DOMAIN s}
PricesAt(s, t) == {s[i].price : i \in {j \in DOMAIN s : s[j].timestamp = t}}

Min(S) == CHOOSE x \in S : \A y \in S : x <= y

RECURSIVE Ascending(_)
Ascending(S) == IF S = {} THEN <<>> ELSE <<Min(S)>> \o Ascending(S \ {Min(S)})

StrictlyIncreasing(s) ==
    \A i \in 1..(Len(s) - 1) : s[i].timestamp < s[i + 1].timestamp

\* round(x, 2) and f'{x:.2f}': nearest multiple of 0.01
Round2(p) == ((p + 5) \div 10) * 10

FormatPrices(s) == [i \in DOMAIN s |-> Row(s[i].timestamp, Round2(s[i].price))]

\* ------------------------------------------------------------- datetimes
Naive(w) == [wall |-> w, tz |-> "naive"]
Utc(w) == [wall |-> w, tz |-> "utc"]

UtcOffset(tz) == IF tz = "jst" THEN JstOffset ELSE 0

\* historical._to_millis: a naive datetime is taken to be UTC
to_millis(dt) ==
    IF dt.tz = "naive" THEN dt.wall ELSE dt.wall - UtcOffset(dt.tz)

\* save_price, lines 242-246: make aware (UTC if naive), convert to the
\* reference timezone, drop the timezone
ts_local(dt) == to_millis(dt) + JstOffset

\* the instant `now`, in UTC minutes
utc_now == now - JstOffset

\* ------------------------------------------------------ historical source
\* Candles a klines request (startTime, endTime) can be answered with:
\* open time within the requested bounds, and not in the future.
SourceCandles(start_ms, end_ms) ==
    {u \in start_ms..end_ms : u <= utc_now}

HistRows(start_ms, end_ms) ==
    {Row(Utc(u), p) : u \in SourceCandles(start_ms, end_ms), p \in HistPrices}

RECURSIVE SeqsUpTo(_, _)
SeqsUpTo(S, n) ==
    IF n = 0 THEN {<<>>}
    ELSE LET shorter == SeqsUpTo(S, n - 1)
         IN shorter \cup {Append(q, x) : q \in {r \in shorter : Len(r) = n - 1}, x \in S}

\* a source that holds a candle for every minute answers with all of them
CompleteAnswers(start_ms, end_ms) ==
    LET order == Ascending(SourceCandles(start_ms, end_ms))
    IN {[i \in DOMAIN order |-> Row(Utc(order[i]), p)] : p \in HistPrices}

\* the klines request fetch_minute_prices sends (lines 31-32, 42-48)
RequestSent(start_time, end_time) ==
    [startTime |-> to_millis(start_time), endTime |-> to_millis(end_time)]

\* fetch_minute_prices(start, end): the list it returns, or an exception
\* (raise_for_status on some page) with the rows of the pages before it
fetch_minute_prices(start_time, end_time) ==
    IF start_time.wall >= end_time.wall
    THEN {[ok |-> TRUE, rows |-> <<>>]}
    ELSE LET s == to_millis(start_time)
             e == to_millis(end_time)
         IN {[ok |-> FALSE, rows |-> r] : r \in SeqsUpTo(HistRows(s, e), MaxHist)}
            \cup {[ok |-> TRUE, rows |-> r] : r \in SeqsUpTo(HistRows(s, e), MaxHist)}
            \cup {[ok |-> TRUE, rows |-> r] : r \in CompleteAnswers(s, e)}

\* an exception handler that hands on what earlier pages collected
fetch_historical_data_keep_pages(outcome) == outcome.rows

\* Recorder.fetch_historical_data: an exception becomes the empty list
fetch_historical_data(outcome) == IF outcome.ok THEN outcome.rows ELSE <<>>

\* ------------------------------------------------------- get_last_timestamp
\* the cache consulted without the modification-time check
UseCacheAnyMtime(c, cm, fm) == c # None

UseCache(c, cm, fm) == c # None /\ cm = Some(fm)

\* lines 181, 272: pd.to_datetime over the stored column raises ValueError
ReadRaises(f) == f.kind = "badlast"

\* `raised`: pd.to_datetime (line 92) raised a ValueError, which the handler
\* of line 106 does not catch
get_last_timestamp(f, fm, c, cm, now_ts) ==
    IF f.kind = "missing"
    THEN [result |-> now_ts, cache |-> Some(now_ts), cache_mtime |-> cm, raised |-> FALSE]
    ELSE IF UseCache(c, cm, fm)
    THEN [result |-> c[1], cache |-> c, cache_mtime |-> cm, raised |-> FALSE]
    ELSE IF f.kind = "badlast"
    THEN [result |-> now_ts, cache |-> c, cache_mtime |-> cm, raised |-> TRUE]
    ELSE IF f.kind = "csv" /\ f.rows # <<>>
    THEN LET last == f.rows[Len(f.rows)].timestamp
         IN [result |-> last, cache |-> Some(last), cache_mtime |-> Some(fm), raised |-> FALSE]
    ELSE [result |-> now_ts, cache |-> Some(now_ts), cache_mtime |-> cm, raised |-> FALSE]

\* ---------------------------------------------------- detect_missing_periods
\* df.sort_values('timestamp'): the timestamps in ascending order, repeats kept
RECURSIVE SortedTimestamps(_)
SortedTimestamps(s) ==
    IF s = <<>> THEN <<>>
    ELSE LET m == Min(Timestamps(s))
             i == CHOOSE j \in DOMAIN s : s[j].timestamp = m
         IN <<m>> \o SortedTimestamps(SubSeq(s, 1, i - 1) \o SubSeq(s, i + 1, Len(s)))

\* a comparison that also reports an interval of exactly 1.5 times the expected
MissingPeriodsFromThreshold(rows, seconds) ==
    IF Len(rows) < 2 THEN <<>>
    ELSE LET ts == SortedTimestamps(rows)
             gap(i) == (ts[i + 1] - ts[i]) * 60 * 2 >= seconds * 3
             idx == {i \in 1..(Len(ts) - 1) : gap(i)}
             order == Ascending(idx)
         IN [k \in DOMAIN order |-> [start |-> ts[order[k]], end |-> ts[order[k] + 1]]]

\* lines 130-152 (and src/recorder.py:100-115): the pairs of consecutive
\* samples whose interval exceeds expected_interval * 1.5, `seconds` being
\* self.interval; timestamps are in minutes, so the comparison
\* 60 * diff > seconds * 1.5 is made on the doubles
MissingPeriods(rows, seconds) ==
    IF Len(rows) < 2 THEN <<>>
    ELSE LET ts == SortedTimestamps(rows)
             gap(i) == (ts[i + 1] - ts[i]) * 60 * 2 > seconds * 3
             idx == {i \in 1..(Len(ts) - 1) : gap(i)}
             order == Ascending(idx)
         IN [k \in DOMAIN order |-> [start |-> ts[order[k]], end |-> ts[order[k] + 1]]]

detect_missing_periods(f) ==
    IF f.kind # "csv" THEN <<>> ELSE MissingPeriods(f.rows, interval)

\* -------------------------------------------------------------- fetch_price
\* a counter that a successful fetch leaves as it is
fetch_price_no_reset(ok, failures) == IF ok THEN failures ELSE failures + 1

\* lines 56, 59: self.consecutive_failures after fetch_price
fetch_price_failures(ok, failures) == IF ok THEN 0 ELSE failures + 1

\* lines 60-63, 213-214: error/warning instead of debug
Escalated(failures) == failures >= max_consecutive_failures

\* -------------------------------------------------------------- save_price
\* a gap test by inequality, without the clock-skew guard
BranchNoSkewGuard(expected_next, now_ts) ==
    IF expected_next # now_ts THEN "gap" ELSE "steady"

Branch(expected_next, now_ts) ==
    IF expected_next > now_ts THEN "skew"
    ELSE IF expected_next < now_ts THEN "gap"
    ELSE "steady"

\* a filter that also keeps the historical point of the current minute
BackfillUpToNow(historical_rows, now_ts) ==
    LET kept == SelectSeq(historical_rows, LAMBDA r : ts_local(r.timestamp) <= now_ts)
    IN [i \in DOMAIN kept |-> Row(ts_local(kept[i].timestamp), Round2(kept[i].price))]

\* lines 239-251: the historical rows kept for the batch
Backfill(historical_rows, now_ts) ==
    LET kept == SelectSeq(historical_rows, LAMBDA r : ts_local(r.timestamp) < now_ts)
    IN [i \in DOMAIN kept |-> Row(ts_local(kept[i].timestamp), Round2(kept[i].price))]

\* lines 221-256: the batch of a tick
BuildRows(branch, historical_rows, now_ts, price) ==
    (IF branch = "gap" THEN Backfill(historical_rows, now_ts) ELSE <<>>)
        \o <<Row(now_ts, Round2(price))>>

\* sort_values('timestamp').drop_duplicates(subset=['timestamp'], keep='last').
\* sort_values sorts with the default kind 'quicksort', which is not stable:
\* rows of equal timestamp come out in an order the build decides, so the
\* row that drop_duplicates keeps is any one of them.
RECURSIVE KeepOne(_, _)
KeepOne(order, combined) ==
    IF order = <<>> THEN {<<>>}
    ELSE {<<Row(Head(order), p)>> \o rest :
              p \in PricesAt(combined, Head(order)),
              rest \in KeepOne(Tail(order), combined)}

SortDropDuplicates(combined) ==
    KeepOne(Ascending(Timestamps(combined)), combined)

\* lines 268-284 and 177-194: is there an existing frame to concatenate with
HasFrame(f) == f.kind = "csv" /\ f.rows # <<>>

\* lines 268-289: the frames save_price may hand to to_csv
TickFrames(f, rows) ==
    LET combined == IF HasFrame(f) THEN f.rows \o rows ELSE rows
    IN {FormatPrices(r) : r \in SortDropDuplicates(combined)}

\* lines 177-197: the frames save_recovered_data may hand to to_csv
RecoveredFrames(f, recovered_data) ==
    IF HasFrame(f)
    THEN {FormatPrices(r) : r \in SortDropDuplicates(f.rows \o recovered_data)}
    ELSE {FormatPrices(recovered_data)}

\* the file when to_csv has put `n` chunks of `frame` on disk: the header
\* line, then the rows (one writerows call for a frame of this size)
OnDisk(frame, n) ==
    IF n = 0 THEN Empty ELSE IF n = 1 THEN Csv(<<>>) ELSE Csv(frame)

\* ------------------------------------------------------------ initial state
InitTimestamps == {-3, 0, 2}

InitFiles ==
    {Missing, Empty, Garbage, NoColumn, BadLast}
        \cup {Csv([i \in DOMAIN Ascending(S) |-> Row(Ascending(S)[i], p)]) :
                  S \in SUBSET InitTimestamps, p \in InitPrices}

NoObs ==
    [op |-> "none", status |-> "none", live |-> None, last |-> None,
     branch |-> "none", warned |-> FALSE, request |-> None, answer |-> "none",
     rows |-> <<>>, before |-> Missing, owed |-> {}, repeat |-> FALSE,
     at |-> 0, cached |-> FALSE, unfetched |-> {}, hist |-> <<>>,
     sent |-> None, raised |-> FALSE, escalated |-> FALSE]

Init ==
    /\ file \in InitFiles
    /\ mtime = 0
    /\ now = 0
    /\ consecutive_failures = 0
    /\ cache = None
    /\ cache_mtime = None
    /\ pc = "idle"
    /\ pending = <<>>
    /\ written = 0
    /\ missed = {}
    /\ merged = None
    /\ obs = NoObs
    /\ streak = 0
    /\ probe = None

\* ------------------------------------------------------------------ actions
\* to_csv opens the file for writing, which truncates it
OpenForWriting(frame) ==
    /\ file' = Empty
    /\ mtime' = mtime + 1
    /\ pending' = frame
    /\ written' = 0
    /\ pc' = "writing"

\* a save_price that reads the last timestamp before it fetches the price
TickFetchFailedAfterRead ==
    /\ pc = "idle"
    /\ consecutive_failures < MaxFailures
    /\ consecutive_failures' = fetch_price_failures(FALSE, consecutive_failures)
    /\ streak' = streak + 1
    /\ pc' = "sleeping"
    /\ LET g == get_last_timestamp(file, mtime, cache, cache_mtime, now)
       IN cache' = g.cache /\ cache_mtime' = g.cache_mtime
    /\ obs' = [NoObs EXCEPT !.op = "tick", !.status = "nofetch", !.before = file,
                            !.at = now,
                            !.escalated = Escalated(consecutive_failures')]
    /\ UNCHANGED <<file, mtime, now, pending, written, missed, merged, probe>>

\* save_price when fetch_price returns None (lines 58-64, 211-215)
TickFetchFailed ==
    /\ pc = "idle"
    /\ consecutive_failures < MaxFailures
    /\ consecutive_failures' = fetch_price_failures(FALSE, consecutive_failures)
    /\ streak' = streak + 1
    /\ pc' = "sleeping"
    /\ obs' = [NoObs EXCEPT !.op = "tick", !.status = "nofetch", !.before = file,
                            !.at = now,
                            !.escalated = Escalated(consecutive_failures')]
    /\ UNCHANGED <<file, mtime, now, cache, cache_mtime, pending, written, missed,
                   merged, probe>>

\* save_price when fetch_price raises what it does not catch: float() of a
\* price that is null in the response is a TypeError (lines 55, 58); the
\* exception leaves save_price and ends the loop (lines 309, 319-321)
TickFetchRaised ==
    /\ pc = "idle"
    /\ pc' = "crashed"
    /\ obs' = [NoObs EXCEPT !.op = "tick", !.status = "raised", !.before = file,
                            !.at = now]
    /\ UNCHANGED <<file, mtime, now, consecutive_failures, cache, cache_mtime,
                   pending, written, missed, merged, streak, probe>>

Classify(outcome, start_time, end_time) ==
    IF ~outcome.ok THEN (IF outcome.rows = <<>> THEN "fail" ELSE "faillate")
    ELSE IF outcome.rows = <<>> THEN "empty"
    ELSE IF outcome.rows \in CompleteAnswers(to_millis(start_time), to_millis(end_time)) THEN "complete"
    ELSE "partial"

\* save_price when fetch_price returns a price (lines 211-298), up to the
\* point where to_csv has opened the file; store_error is an exception raised
\* before that (reading the existing file, opening it for writing)
TickSave(price, store_error) ==
    /\ pc = "idle"
    /\ consecutive_failures' = fetch_price_failures(TRUE, consecutive_failures)
    /\ streak' = 0
    /\ LET g == get_last_timestamp(file, mtime, cache, cache_mtime, now)
           last_timestamp == g.result
           expected_next == last_timestamp + 1
           branch == Branch(expected_next, now)
           answers == IF branch = "gap"
                      THEN fetch_minute_prices(Naive(expected_next), Naive(now))
                      ELSE {[ok |-> TRUE, rows |-> <<>>]}
       IN IF g.raised
          THEN /\ pc' = "crashed"
               /\ obs' = [NoObs EXCEPT !.op = "tick", !.status = "raised",
                                       !.live = Some(price), !.before = file,
                                       !.at = now, !.raised = TRUE]
               /\ UNCHANGED <<file, mtime, cache, cache_mtime, pending, written, missed>>
          ELSE \E outcome \in answers :
            LET historical_rows == fetch_historical_data(outcome)
                rows == BuildRows(branch, historical_rows, now, price)
                o == [op |-> "tick", status |-> "writing", live |-> Some(price),
                      last |-> Some(last_timestamp), branch |-> branch,
                      warned |-> (branch = "skew"),
                      request |-> IF branch = "gap"
                                  THEN Some([start |-> expected_next, end |-> now])
                                  ELSE None,
                      answer |-> IF branch = "gap"
                                 THEN Classify(outcome, Naive(expected_next), Naive(now))
                                 ELSE "none",
                      rows |-> rows, before |-> file,
                      owed |-> missed \ Timestamps(file.rows),
                      repeat |-> (merged = Some(rows)), at |-> now,
                      cached |-> (file.kind # "missing"
                                  /\ UseCache(cache, cache_mtime, mtime)),
                      unfetched |-> IF branch = "gap" /\ historical_rows = <<>>
                                    THEN expected_next..(now - 1)
                                    ELSE {},
                      hist |-> historical_rows,
                      sent |-> IF branch = "gap"
                               THEN Some(RequestSent(Naive(expected_next), Naive(now)))
                               ELSE None,
                      raised |-> FALSE, escalated |-> FALSE]
            IN /\ cache' = g.cache
               /\ cache_mtime' = g.cache_mtime
               /\ missed' = {}
               /\ IF store_error \/ ReadRaises(file)
                  THEN /\ obs' = [o EXCEPT !.status = "saveerror"]
                       /\ pc' = "sleeping"
                       /\ UNCHANGED <<file, mtime, pending, written>>
                  ELSE /\ obs' = o
                       /\ \E frame \in TickFrames(file, rows) : OpenForWriting(frame)
    /\ UNCHANGED <<now, merged, probe>>

BatchRows == {Row(now, p) : p \in BatchPrices}

\* save_recovered_data (lines 165-207), up to the point where to_csv has
\* opened the file
SaveRecovered(recovered_data, store_error) ==
    /\ pc = "sleeping"
    /\ mtime < MaxVersion
    /\ LET o == [NoObs EXCEPT !.op = "recovered", !.status = "writing",
                              !.rows = recovered_data, !.before = file,
                              !.repeat = (merged = Some(recovered_data)),
                              !.at = now]
       IN IF recovered_data = <<>>
          THEN /\ obs' = [o EXCEPT !.status = "skipped"]
               /\ UNCHANGED <<file, mtime, pending, written, pc>>
          ELSE IF store_error \/ ReadRaises(file)
          THEN /\ obs' = [o EXCEPT !.status = "saveerror"]
               /\ UNCHANGED <<file, mtime, pending, written, pc>>
          ELSE /\ obs' = o
               /\ \E frame \in RecoveredFrames(file, recovered_data) : OpenForWriting(frame)
    /\ UNCHANGED <<now, consecutive_failures, cache, cache_mtime, missed, merged,
                   streak, probe>>

\* to_csv puts the next chunk (the header, then the rows) on disk
WriteFlush ==
    /\ pc = "writing"
    /\ written < 2
    /\ written' = written + 1
    /\ file' = OnDisk(pending, written + 1)
    /\ UNCHANGED <<mtime, now, consecutive_failures, cache, cache_mtime, pc,
                   pending, missed, merged, obs, streak, probe>>

\* to_csv returns; the cache is invalidated (lines 292-294, 199-201)
WriteClose ==
    /\ pc = "writing"
    /\ written = 2
    /\ cache' = None
    /\ cache_mtime' = None
    /\ pc' = "sleeping"
    /\ merged' = Some(obs.rows)
    /\ obs' = [obs EXCEPT !.status = "done"]
    /\ pending' = <<>>
    /\ written' = 0
    /\ missed' = IF obs.op = "tick" THEN obs.unfetched ELSE missed
    /\ UNCHANGED <<file, mtime, now, consecutive_failures, streak, probe>>

\* to_csv raises (disk full, I/O error); `except Exception` logs "Save error"
WriteFail ==
    /\ pc = "writing"
    /\ written < 2
    /\ pc' = "sleeping"
    /\ merged' = None
    /\ obs' = [obs EXCEPT !.status = "saveerror"]
    /\ UNCHANGED <<file, mtime, now, consecutive_failures, cache, cache_mtime,
                   pending, written, missed, streak, probe>>

\* operator interrupt: KeyboardInterrupt ends Recorder.start (lines 313-324)
Interrupt ==
    /\ pc \in {"writing", "sleeping"}
    /\ pc' = "stopped"
    /\ merged' = IF pc = "writing" THEN None ELSE merged
    /\ obs' = IF pc = "writing" THEN [obs EXCEPT !.status = "interrupted"] ELSE obs
    /\ UNCHANGED <<file, mtime, now, consecutive_failures, cache, cache_mtime,
                   pending, written, missed, streak, probe>>

\* time.sleep / schedule: the next tick is due `d` minutes later.  The clock
\* runs to MaxNow, and further, minute by minute, through a run of failed
\* live fetches that began with the first tick
Sleep(d) ==
    /\ pc = "sleeping"
    /\ \/ now + d <= MaxNow
       \/ /\ d = 1
          /\ obs.status = "nofetch"
          /\ streak > now
          /\ consecutive_failures < MaxFailures
    /\ now' = now + d
    /\ pc' = "idle"
    /\ UNCHANGED <<file, mtime, consecutive_failures, cache, cache_mtime,
                   pending, written, missed, merged, obs, streak, probe>>

\* the process is down for more than nine hours and is started again:
\* a new Recorder object, the same file
Restart(d) ==
    /\ pc \in {"sleeping", "stopped", "crashed"}
    /\ now <= MaxNow
    /\ now' = now + JstOffset + d
    /\ pc' = "idle"
    /\ consecutive_failures' = 0
    /\ cache' = None
    /\ cache_mtime' = None
    /\ streak' = 0
    /\ UNCHANGED <<file, mtime, pending, written, missed, merged, obs, probe>>

Next ==
    \/ TickFetchFailed
    \/ TickFetchRaised
    \/ \E price \in LivePrices, store_error \in BOOLEAN : TickSave(price, store_error)
    \/ \E recovered_data \in SeqsUpTo(BatchRows, MaxBatch), store_error \in BOOLEAN :
           SaveRecovered(recovered_data, store_error)
    \/ WriteFlush
    \/ WriteClose
    \/ WriteFail
    \/ Interrupt
    \/ \E d \in 1..MaxStep : Sleep(d)
    \/ \E d \in 1..MaxStep : Restart(d)

Spec == Init /\ [][Next]_vars

\* ------------------------------------------------- gap detection on its own
\* the recorder's variables while a function is examined on its own
Parked ==
    /\ file = Missing /\ mtime = 0 /\ now = 0 /\ consecutive_failures = 0
    /\ cache = None /\ cache_mtime = None /\ pc = "idle"
    /\ pending = None /\ written = 0 /\ missed = {} /\ merged = None
    /\ obs = NoObs /\ streak = 0

GapIntervals == {40, 60, 120}

GapSeries ==
    SeqsUpTo({Row(t, p) : t \in 0..MaxGapTime, p \in InitPrices}, MaxSamples)

InitGaps ==
    /\ Parked
    /\ \E rows \in GapSeries, seconds \in GapIntervals :
          probe = [rows |-> rows, seconds |-> seconds, periods |-> None,
                   older |-> None]

\* Recorder.detect_missing_periods of src/modules/recorder.py on a file
\* holding probe.rows, self.interval being probe.seconds
DetectMissingPeriods ==
    /\ probe.periods = None
    /\ probe' = [probe EXCEPT !.periods = Some(MissingPeriods(probe.rows, probe.seconds))]
    /\ UNCHANGED <<file, mtime, now, consecutive_failures, cache, cache_mtime, pc,
                   pending, written, missed, merged, obs, streak>>

\* src/recorder.py:90-119: the older detect_missing_periods, a loop over the
\* consecutive pairs of the sorted samples
RECURSIVE LoopOverPairs(_, _, _)
LoopOverPairs(ts, i, seconds) ==
    IF i > Len(ts) - 1 THEN <<>>
    ELSE (IF (ts[i + 1] - ts[i]) * 60 * 2 > seconds * 3
          THEN <<[start |-> ts[i], end |-> ts[i + 1]]>>
          ELSE <<>>) \o LoopOverPairs(ts, i + 1, seconds)

DetectMissingPeriodsOlder ==
    /\ probe.older = None
    /\ probe' = [probe EXCEPT
                   !.older = Some(LoopOverPairs(SortedTimestamps(probe.rows), 1,
                                                probe.seconds))]
    /\ UNCHANGED <<file, mtime, now, consecutive_failures, cache, cache_mtime, pc,
                   pending, written, missed, merged, obs, streak>>

NextGaps ==
    \/ DetectMissingPeriods
    \/ DetectMissingPeriodsOlder

SpecGaps == InitGaps /\ [][NextGaps]_vars

\* ------------------------------------------- minute alignment, to the second
\* the reference timezone's offset in seconds; instants are seconds of UTC,
\* timestamps are seconds of the wall clock of the reference timezone
JstSeconds == JstOffset * 60

\* a timestamp written as read
keep_seconds(sec) == sec

\* .replace(second=0, microsecond=0)
truncate_minute(sec) == (sec \div 60) * 60

\* lines 218-219: now_ts from the clock
now_ts_at(clock) == truncate_minute(clock + JstSeconds)

\* lines 243-246: ts_local of a historical point
ts_local_at(open_time) == truncate_minute(open_time + JstSeconds)

\* lines 221-256: the timestamps of the batch of a tick, from the last
\* timestamp, the clock and the open times of the historical rows
BatchTimestamps(last_timestamp, clock, open_times) ==
    LET now_ts == now_ts_at(clock)
        expected_next == truncate_minute(last_timestamp + 60)
        kept == SelectSeq(open_times, LAMBDA t : ts_local_at(t) < now_ts)
    IN IF expected_next > now_ts THEN <<now_ts>>
       ELSE (IF expected_next < now_ts
             THEN [i \in DOMAIN kept |-> ts_local_at(kept[i])]
             ELSE <<>>) \o <<now_ts>>

\* open times a source may answer with, whole minutes or not
OpenTimes(clock) == {clock - 130, clock - 61, clock - 1}

SetMax(S) == CHOOSE x \in S : \A y \in S : y <= x

InitMinute ==
    /\ Parked
    /\ \E store \in {{}, {JstSeconds - 180}} :
          probe = [clock |-> 0, store |-> store, batch |-> <<>>, hist |-> <<>>]

\* a tick with a live price whose merge completes: the timestamps stored
MinuteTick(open_times) ==
    /\ probe.batch = <<>>
    /\ LET last_timestamp == IF probe.store = {} THEN now_ts_at(probe.clock)
                             ELSE SetMax(probe.store)
           batch == BatchTimestamps(last_timestamp, probe.clock, open_times)
       IN probe' = [probe EXCEPT !.batch = batch, !.hist = open_times,
                                 !.store = @ \cup {batch[i] : i \in DOMAIN batch}]
    /\ UNCHANGED <<file, mtime, now, consecutive_failures, cache, cache_mtime, pc,
                   pending, written, missed, merged, obs, streak>>

\* the next tick is due `d` seconds later
MinuteSleep(d) ==
    /\ probe.batch # <<>>
    /\ probe.clock + d <= MaxClock
    /\ probe' = [probe EXCEPT !.clock = @ + d, !.batch = <<>>, !.hist = <<>>]
    /\ UNCHANGED <<file, mtime, now, consecutive_failures, cache, cache_mtime, pc,
                   pending, written, missed, merged, obs, streak>>

NextMinute ==
    \/ \E open_times \in SeqsUpTo(OpenTimes(probe.clock), 2) : MinuteTick(open_times)
    \/ \E d \in {1, 59, 60, 125} : MinuteSleep(d)

SpecMinute == InitMinute /\ [][NextMinute]_vars

\* ------------------------------------------------ fetch_minute_prices, paged
\* The klines endpoint answers a request (startTime, endTime, limit) with the
\* candles it holds whose open time lies in startTime..endTime, both ends
\* included, earliest first, at most `limit` of them.  Times are in minutes
\* (60_000 ms).
Klines(held, startTime, endTime, lim) ==
    LET order == Ascending({u \in held : startTime <= u /\ u <= endTime})
    IN SubSeq(order, 1, IF Len(order) < lim THEN Len(order) ELSE lim)

\* lines 26-39: the call, up to the first test of the loop
InitPages ==
    /\ Parked
    /\ \E held \in SUBSET (0..MaxCandle), start_ms \in 0..MaxCandle,
          end_ms \in 0..MaxCandle :
          probe = [held |-> held, start_ms |-> start_ms, end_ms |-> end_ms,
                   current_start |-> start_ms, results |-> <<>>,
                   status |-> IF start_ms >= end_ms THEN "returned" ELSE "paging"]

\* lines 41-70: one pass of the loop whose request is answered
FetchPage ==
    /\ probe.status = "paging"
    /\ probe.current_start < probe.end_ms
    /\ LET klines == Klines(probe.held, probe.current_start, probe.end_ms, PageLimit)
       IN IF klines = <<>>
          THEN probe' = [probe EXCEPT !.status = "returned"]
          ELSE probe' = [probe EXCEPT
                           !.results = @ \o klines,
                           !.current_start = klines[Len(klines)] + 1,
                           !.status = IF Len(klines) < PageLimit
                                      THEN "returned" ELSE "paging"]
    /\ UNCHANGED <<file, mtime, now, consecutive_failures, cache, cache_mtime, pc,
                   pending, written, missed, merged, obs, streak>>

\* lines 50-51: raise_for_status raises; the call ends without a result
FetchPageRaises ==
    /\ probe.status = "paging"
    /\ probe.current_start < probe.end_ms
    /\ probe' = [probe EXCEPT !.status = "raised"]
    /\ UNCHANGED <<file, mtime, now, consecutive_failures, cache, cache_mtime, pc,
                   pending, written, missed, merged, obs, streak>>

\* lines 41, 72: the loop test fails after a full page; return results
PagesDone ==
    /\ probe.status = "paging"
    /\ probe.current_start >= probe.end_ms
    /\ probe' = [probe EXCEPT !.status = "returned"]
    /\ UNCHANGED <<file, mtime, now, consecutive_failures, cache, cache_mtime, pc,
                   pending, written, missed, merged, obs, streak>>

NextPages ==
    \/ FetchPage
    \/ FetchPageRaises
    \/ PagesDone

SpecPages == InitPages /\ [][NextPages]_vars

\* The same loop against a source that may answer a request with any page:
\* none, fewer than `limit`, or `limit` candles, earliest first, whatever
\* the startTime asked for.  requested tells whether s.get (line 50) was
\* called; of results the first MaxResults rows are kept track of.
AnyPages ==
    {Ascending(c) : c \in {x \in SUBSET (0..MaxCandle) : Cardinality(x) <= PageLimit}}

FirstRows(results) ==
    SubSeq(results, 1, IF Len(results) < MaxResults THEN Len(results) ELSE MaxResults)

InitPaging ==
    /\ Parked
    /\ \E start_ms \in 0..MaxCandle, end_ms \in 0..MaxCandle :
          probe = [start_ms |-> start_ms, end_ms |-> end_ms,
                   current_start |-> start_ms, results |-> <<>>,
                   requested |-> FALSE,
                   status |-> IF start_ms >= end_ms THEN "returned" ELSE "paging"]

\* lines 41-70: one pass of the loop whose request is answered with klines
FetchAnyPage(klines) ==
    /\ probe.status = "paging"
    /\ probe.current_start < probe.end_ms
    /\ IF klines = <<>>
       THEN probe' = [probe EXCEPT !.requested = TRUE, !.status = "returned"]
       ELSE probe' = [probe EXCEPT
                        !.requested = TRUE,
                        !.results = FirstRows(@ \o klines),
                        !.current_start = klines[Len(klines)] + 1,
                        !.status = IF Len(klines) < PageLimit
                                   THEN "returned" ELSE "paging"]
    /\ UNCHANGED <<file, mtime, now, consecutive_failures, cache, cache_mtime, pc,
                   pending, written, missed, merged, obs, streak>>

\* lines 50-51: the request times out or raise_for_status raises
FetchAnyPageRaises ==
    /\ probe.status = "paging"
    /\ probe.current_start < probe.end_ms
    /\ probe' = [probe EXCEPT !.requested = TRUE, !.status = "raised"]
    /\ UNCHANGED <<file, mtime, now, consecutive_failures, cache, cache_mtime, pc,
                   pending, written, missed, merged, obs, streak>>

NextPaging ==
    \/ \E klines \in AnyPages : FetchAnyPage(klines)
    \/ FetchAnyPageRaises
    \/ PagesDone

\* the loop is never suspended: a pass that can run does run
SpecPaging == InitPaging /\ [][NextPaging]_vars /\ WF_vars(NextPaging)

\* ----------------------------------------------------- MovingAverageStrategy
\* A moving average is None (NaN) or Some of a fraction num / den, den > 0.
Mean(sum, n) == Some([num |-> sum, den |-> n])

\* a comparison that takes an absent value for the lowest
LtAbsentLowest(a, b) ==
    IF b = None THEN FALSE
    ELSE IF a = None THEN TRUE
    ELSE a[1].num * b[1].den < b[1].num * a[1].den

\* a < b on floats: False when either is NaN
Lt(a, b) ==
    IF a = None \/ b = None THEN FALSE
    ELSE a[1].num * b[1].den < b[1].num * a[1].den

RECURSIVE SumRange(_, _, _)
SumRange(price, lo, hi) ==
    IF lo > hi THEN 0 ELSE price[hi] + SumRange(price, lo, hi - 1)

\* a rolling mean over the samples there are (min_periods = 1)
rolling_mean_partial(price, window) ==
    [i \in DOMAIN price |->
        LET lo == IF i < window THEN 1 ELSE i - window + 1
        IN Mean(SumRange(price, lo, i), i - lo + 1)]

\* df['price'].rolling(window=window).mean(), rows numbered from 1
rolling_mean(price, window) ==
    [i \in DOMAIN price |->
        IF i < window THEN None
        ELSE Mean(SumRange(price, i - window + 1, i), window)]

\* a data frame: its columns and their values
Frame(price) ==
    [columns |-> {"price"}, price |-> price, short_ma |-> <<>>, long_ma |-> <<>>,
     signal |-> <<>>]

\* lines 9-12: the frame after the call, which is also the value returned
calculate_moving_averages(df, short_window, long_window) ==
    [df EXCEPT !.columns = @ \cup {"short_ma", "long_ma"},
               !.short_ma = rolling_mean(df.price, short_window),
               !.long_ma = rolling_mean(df.price, long_window)]

\* .iloc[i-1] for the i-th row, rows numbered from 1: Python's index -1 of
\* the first pass is the last row
PreviousRow(i, n) == IF i = 1 THEN n ELSE i - 1

\* lines 16-26: the signal of row i
SignalOfRow(df, i) ==
    LET current_short == df.short_ma[i]
        current_long == df.long_ma[i]
        previous_short == df.short_ma[PreviousRow(i, Len(df.price))]
        previous_long == df.long_ma[PreviousRow(i, Len(df.price))]
    IN IF Lt(previous_short, previous_long) /\ Lt(current_long, current_short)
       THEN "BUY"
       ELSE IF Lt(previous_long, previous_short) /\ Lt(current_short, current_long)
       THEN "SELL"
       ELSE "HOLD"

\* lines 14-28: the frame after the call, which is also the value returned
generate_signals(df) ==
    [df EXCEPT !.columns = @ \cup {"signal"},
               !.signal = [i \in DOMAIN df.price |-> SignalOfRow(df, i)]]

\* moving-average values of a frame that arrives annotated
GivenAverages == {None, Mean(1, 1), Mean(2, 1)}

GivenFrames ==
    LET columns == SeqsUpTo(GivenAverages, MaxGiven)
    IN {[columns |-> {"price", "short_ma", "long_ma"},
         price |-> [i \in DOMAIN c[1] |-> 1],
         short_ma |-> c[1], long_ma |-> c[2], signal |-> <<>>] :
           c \in {x \in columns \X columns : Len(x[1]) = Len(x[2])}}

\* a caller holds a frame of prices, or one that already carries averages
InitSignals ==
    /\ Parked
    /\ \E short_window \in 1..MaxWindow, long_window \in 1..MaxWindow :
          \/ \E price \in SeqsUpTo(1..MaxPrice, MaxRows) :
                probe = [df |-> Frame(price), given |-> Frame(price),
                         out |-> Frame(price),
                         short_window |-> short_window, long_window |-> long_window,
                         stage |-> "prices", averaged |-> FALSE]
          \/ /\ short_window = 1 /\ long_window = 1
             /\ \E df \in GivenFrames :
                   probe = [df |-> df, given |-> df, out |-> df,
                            short_window |-> short_window,
                            long_window |-> long_window,
                            stage |-> "averages", averaged |-> FALSE]

\* df = strategy.calculate_moving_averages(df): `given` is the frame as the
\* caller passed it, `df` the caller's frame after the call, `out` the value
\* returned
CalculateMovingAverages ==
    /\ probe.stage = "prices"
    /\ LET result == calculate_moving_averages(probe.df, probe.short_window,
                                               probe.long_window)
       IN probe' = [probe EXCEPT !.given = probe.df, !.df = result, !.out = result,
                                 !.stage = "averages", !.averaged = TRUE]
    /\ UNCHANGED <<file, mtime, now, consecutive_failures, cache, cache_mtime, pc,
                   pending, written, missed, merged, obs, streak>>

\* df = strategy.generate_signals(df)
GenerateSignals ==
    /\ probe.stage = "averages"
    /\ LET result == generate_signals(probe.df)
       IN probe' = [probe EXCEPT !.given = probe.df, !.df = result, !.out = result,
                                 !.stage = "signals"]
    /\ UNCHANGED <<file, mtime, now, consecutive_failures, cache, cache_mtime, pc,
                   pending, written, missed, merged, obs, streak>>

NextSignals ==
    \/ CalculateMovingAverages
    \/ GenerateSignals

SpecSignals == InitSignals /\ [][NextSignals]_vars

\* ---------------------------------------------------------------- Backtester
\* a float quotient num / den, kept exact
Fraction(num, den) == [num |-> num, den |-> den]

\* a > b for fractions of positive denominator
FractionGt(a, b) == a.num * b.den > b.num * a.den

\* a trade rule that buys on every BUY, long or flat
TradeOnEveryBuy(signal, price, position, cash) ==
    IF signal = "BUY"
    THEN [position |-> 1, cash |-> cash - price]
    ELSE IF signal = "SELL" /\ position = 1
    THEN [position |-> 0, cash |-> cash + price]
    ELSE [position |-> position, cash |-> cash]

\* lines 10-15: position and cash after the trade of a row
Trade(signal, price, position, cash) ==
    IF signal = "BUY" /\ position = 0
    THEN [position |-> 1, cash |-> cash - price]
    ELSE IF signal = "SELL" /\ position = 1
    THEN [position |-> 0, cash |-> cash + price]
    ELSE [position |-> position, cash |-> cash]

\* lines 33-42: the loop of calculate_max_drawdown, from entry i on
RECURSIVE DrawdownLoop(_, _, _, _)
DrawdownLoop(portfolio_value, i, peak, max_drawdown) ==
    IF i > Len(portfolio_value) THEN max_drawdown
    ELSE LET value == portfolio_value[i]
             new_peak == IF value > peak THEN value ELSE peak
             drawdown == Fraction(new_peak - value, new_peak)
         IN DrawdownLoop(portfolio_value, i + 1, new_peak,
                         IF FractionGt(drawdown, max_drawdown)
                         THEN drawdown ELSE max_drawdown)

\* a loop that measures every entry against the first one
RECURSIVE DrawdownLoopFixedPeak(_, _, _, _)
DrawdownLoopFixedPeak(portfolio_value, i, peak, max_drawdown) ==
    IF i > Len(portfolio_value) THEN max_drawdown
    ELSE LET drawdown == Fraction(peak - portfolio_value[i], peak)
         IN DrawdownLoopFixedPeak(portfolio_value, i + 1, peak,
                                  IF FractionGt(drawdown, max_drawdown)
                                  THEN drawdown ELSE max_drawdown)

calculate_max_drawdown_fixed_peak(portfolio_value) ==
    DrawdownLoopFixedPeak(portfolio_value, 1, portfolio_value[1], Fraction(0, 1))

calculate_max_drawdown(portfolio_value) ==
    DrawdownLoop(portfolio_value, 1, portfolio_value[1], Fraction(0, 1))

\* a count that starts at the first row, whose row before is the last one
calculate_win_rate_from_first(signal) ==
    Fraction(Cardinality({i \in 1..Len(signal) :
                             /\ signal[i] = "BUY"
                             /\ signal[IF i = 1 THEN Len(signal) ELSE i - 1] = "SELL"}),
             Len(signal))

\* lines 44-50
calculate_win_rate(signal) ==
    Fraction(Cardinality({i \in 2..Len(signal) :
                             signal[i] = "BUY" /\ signal[i - 1] = "SELL"}),
             Len(signal))

\* a return measured against the final value
calculate_performance_on_final(signal, portfolio_value, initial_capital) ==
    LET final_value == portfolio_value[Len(portfolio_value)]
    IN [total_return |-> Fraction((final_value - initial_capital) * 100,
                                  final_value),
        final_value |-> final_value,
        max_drawdown |-> calculate_max_drawdown(portfolio_value),
        win_rate |-> calculate_win_rate(signal)]

\* lines 22-31
calculate_performance(signal, portfolio_value, initial_capital) ==
    LET final_value == portfolio_value[Len(portfolio_value)]
    IN [total_return |-> Fraction((final_value - initial_capital) * 100,
                                  initial_capital),
        final_value |-> final_value,
        max_drawdown |-> calculate_max_drawdown(portfolio_value),
        win_rate |-> calculate_win_rate(signal)]

\* price paths the series are cut from, and the capitals a Backtester is
\* constructed with
PricePaths == {<<100, 95, 105, 110>>, <<110, 95, 100, 105>>}

InitialCapitals == {10, 100000}

Signals == {"BUY", "SELL", "HOLD"}

\* Backtester(initial_capital) and the frame of the first run_backtest
InitBacktest ==
    /\ Parked
    /\ \E path \in PricePaths, n \in 0..MaxTradeRows,
          initial_capital \in InitialCapitals :
          \E signal \in [1..n -> Signals] :
              probe = [price |-> [i \in 1..n |-> path[((i - 1) % Len(path)) + 1]],
                       signal |-> signal,
                       initial_capital |-> initial_capital,
                       position |-> 0, cash |-> initial_capital,
                       portfolio_value |-> <<>>,
                       row |-> 1, run |-> 1, status |-> "running",
                       performance |-> <<>>, executed |-> <<>>]

\* the trades a Backtester executed: the rows that changed position or cash
Executed(executed, run, signal, price, position, cash, t) ==
    IF t.position # position \/ t.cash # cash
    THEN Append(executed, [run |-> run, side |-> signal, price |-> price])
    ELSE executed

\* a loop that values the row with the position held before its trade
BacktestRowValuedBeforeTrade ==
    /\ probe.status = "running"
    /\ probe.row <= Len(probe.price)
    /\ LET price == probe.price[probe.row]
           t == Trade(probe.signal[probe.row], price, probe.position, probe.cash)
           current_value == t.cash + probe.position * price
       IN probe' = [probe EXCEPT !.position = t.position, !.cash = t.cash,
                                 !.portfolio_value = Append(@, current_value),
                                 !.row = @ + 1,
                                 !.executed = Executed(@, probe.run,
                                     probe.signal[probe.row], price,
                                     probe.position, probe.cash, t)]
    /\ UNCHANGED <<file, mtime, now, consecutive_failures, cache, cache_mtime, pc,
                   pending, written, missed, merged, obs, streak>>

\* lines 9-18: one pass of the loop over the rows
BacktestRow ==
    /\ probe.status = "running"
    /\ probe.row <= Len(probe.price)
    /\ LET price == probe.price[probe.row]
           t == Trade(probe.signal[probe.row], price, probe.position, probe.cash)
           current_value == t.cash + t.position * price
       IN probe' = [probe EXCEPT !.position = t.position, !.cash = t.cash,
                                 !.portfolio_value = Append(@, current_value),
                                 !.row = @ + 1,
                                 !.executed = Executed(@, probe.run,
                                     probe.signal[probe.row], price,
                                     probe.position, probe.cash, t)]
    /\ UNCHANGED <<file, mtime, now, consecutive_failures, cache, cache_mtime, pc,
                   pending, written, missed, merged, obs, streak>>

\* line 20: the loop is over; calculate_performance returns the metrics
BacktestReturns ==
    /\ probe.status = "running"
    /\ probe.row > Len(probe.price)
    /\ probe.portfolio_value # <<>>
    /\ probe' = [probe EXCEPT
                   !.status = "returned",
                   !.performance = Append(@,
                       calculate_performance(probe.signal, probe.portfolio_value,
                                             probe.initial_capital))]
    /\ UNCHANGED <<file, mtime, now, consecutive_failures, cache, cache_mtime, pc,
                   pending, written, missed, merged, obs, streak>>

\* line 23: portfolio_value[-1] of an empty trace raises IndexError
BacktestRaises ==
    /\ probe.status = "running"
    /\ probe.row > Len(probe.price)
    /\ probe.portfolio_value = <<>>
    /\ probe' = [probe EXCEPT !.status = "raised"]
    /\ UNCHANGED <<file, mtime, now, consecutive_failures, cache, cache_mtime, pc,
                   pending, written, missed, merged, obs, streak>>

\* run_backtest(df) again, on the same Backtester and the same frame
BacktestAgain ==
    /\ probe.status = "returned"
    /\ probe.run < MaxRuns
    /\ probe' = [probe EXCEPT !.status = "running", !.row = 1, !.run = @ + 1]
    /\ UNCHANGED <<file, mtime, now, consecutive_failures, cache, cache_mtime, pc,
                   pending, written, missed, merged, obs, streak>>

NextBacktest ==
    \/ BacktestRow
    \/ BacktestReturns
    \/ BacktestRaises
    \/ BacktestAgain

SpecBacktest == InitBacktest /\ [][NextBacktest]_vars

\* ------------------------------------------- calculate_max_drawdown on its own
TraceValues == {85, 90, 100, 110}

Traces ==
    SeqsUpTo(TraceValues, MaxTrace) \cup {<<100, 95, 90, 85, 90, 95, 100>>}

\* a Backtester whose trace is portfolio_value
InitDrawdown ==
    /\ Parked
    /\ \E portfolio_value \in Traces :
          probe = [portfolio_value |-> portfolio_value, status |-> "called",
                   max_drawdown |-> Fraction(0, 1)]

\* lines 33-42: the call returns
MaxDrawdownReturns ==
    /\ probe.status = "called"
    /\ probe.portfolio_value # <<>>
    /\ probe' = [probe EXCEPT
                   !.status = "returned",
                   !.max_drawdown = calculate_max_drawdown(probe.portfolio_value)]
    /\ UNCHANGED <<file, mtime, now, consecutive_failures, cache, cache_mtime, pc,
                   pending, written, missed, merged, obs, streak>>

\* line 35: portfolio_value[0] of an empty trace raises IndexError
MaxDrawdownRaises ==
    /\ probe.status = "called"
    /\ probe.portfolio_value = <<>>
    /\ probe' = [probe EXCEPT !.status = "raised"]
    /\ UNCHANGED <<file, mtime, now, consecutive_failures, cache, cache_mtime, pc,
                   pending, written, missed, merged, obs, streak>>

NextDrawdown ==
    \/ MaxDrawdownReturns
    \/ MaxDrawdownRaises

SpecDrawdown == InitDrawdown /\ [][NextDrawdown]_vars

\* -------------------------------------------------------- live_signal_monitor
\* main(): the polling loop, one action per cycle.  probe.last_signal is the
\* local variable, probe.notifications the signals of the messages that
\* reached Telegram, in order; current, outcome and remembered describe the
\* last cycle: the signal it found, how it ended and last_signal before it.

\* the signal columns generate_signals can leave in the frame
SignalColumns == UNION {[1..n -> Signals] : n \in 0..MaxColumn}

\* lines 61-68; generate_signals leaves no NaN in the column
get_latest_signal(column) ==
    IF column = <<>> THEN None ELSE Some(column[Len(column)])

\* line 135
InitMonitor ==
    /\ Parked
    /\ probe = [last_signal |-> None, notifications |-> <<>>, cycles |-> 0,
                current |-> None, outcome |-> "none", remembered |-> None,
                running |-> TRUE]

\* the record of a cycle that leaves last_signal and the notifications alone
CycleOver(current, outcome) ==
    [probe EXCEPT !.cycles = @ + 1, !.current = current, !.outcome = outcome,
                  !.remembered = probe.last_signal]

\* lines 147-150, 156-159, 172-175: no file, no rows or no signal yet
CycleWaits ==
    /\ probe.running /\ probe.cycles < MaxCycles
    /\ probe' = CycleOver(get_latest_signal(<<>>), "waited")
    /\ UNCHANGED <<file, mtime, now, consecutive_failures, cache, cache_mtime, pc,
                   pending, written, missed, merged, obs, streak>>

\* lines 154-170, 202-203: reading the file or computing the signals raises
CycleReadRaises ==
    /\ probe.running /\ probe.cycles < MaxCycles
    /\ probe' = CycleOver(None, "failed")
    /\ UNCHANGED <<file, mtime, now, consecutive_failures, cache, cache_mtime, pc,
                   pending, written, missed, merged, obs, streak>>

\* lines 178-185: the latest signal is the remembered one
CycleSame(column) ==
    /\ probe.running /\ probe.cycles < MaxCycles
    /\ get_latest_signal(column) # None
    /\ get_latest_signal(column) = probe.last_signal
    /\ probe' = CycleOver(get_latest_signal(column), "quiet")
    /\ UNCHANGED <<file, mtime, now, consecutive_failures, cache, cache_mtime, pc,
                   pending, written, missed, merged, obs, streak>>

\* lines 185-195: the latest signal is another one; message and plot are sent
CycleNotifies(column) ==
    /\ probe.running /\ probe.cycles < MaxCycles
    /\ get_latest_signal(column) # None
    /\ get_latest_signal(column) # probe.last_signal
    /\ LET current_signal == get_latest_signal(column)
       IN probe' = [CycleOver(current_signal, "notified") EXCEPT
                       !.notifications = Append(@, current_signal[1]),
                       !.last_signal = current_signal]
    /\ UNCHANGED <<file, mtime, now, consecutive_failures, cache, cache_mtime, pc,
                   pending, written, missed, merged, obs, streak>>

\* lines 186-189, 202-203: format_log_message or the first requests.post
\* raises; nothing was sent and line 195 is not reached
CycleMessageRaises(column) ==
    /\ probe.running /\ probe.cycles < MaxCycles
    /\ get_latest_signal(column) # None
    /\ get_latest_signal(column) # probe.last_signal
    /\ probe' = CycleOver(get_latest_signal(column), "failed")
    /\ UNCHANGED <<file, mtime, now, consecutive_failures, cache, cache_mtime, pc,
                   pending, written, missed, merged, obs, streak>>

\* lines 189-193, 202-203: the message was posted (to the first chat at
\* least), then a later post, savefig or the photo upload raises; line 195
\* is not reached
CyclePlotRaises(column) ==
    /\ probe.running /\ probe.cycles < MaxCycles
    /\ get_latest_signal(column) # None
    /\ get_latest_signal(column) # probe.last_signal
    /\ LET current_signal == get_latest_signal(column)
       IN probe' = [CycleOver(current_signal, "failed") EXCEPT
                       !.notifications = Append(@, current_signal[1])]
    /\ UNCHANGED <<file, mtime, now, consecutive_failures, cache, cache_mtime, pc,
                   pending, written, missed, merged, obs, streak>>

\* lines 208-212: KeyboardInterrupt during the sleep
MonitorInterrupt ==
    /\ probe.running
    /\ probe' = [probe EXCEPT !.running = FALSE]
    /\ UNCHANGED <<file, mtime, now, consecutive_failures, cache, cache_mtime, pc,
                   pending, written, missed, merged, obs, streak>>

NextMonitor ==
    \/ CycleWaits
    \/ CycleReadRaises
    \/ \E column \in SignalColumns \ {<<>>} :
          \/ CycleSame(column)
          \/ CycleNotifies(column)
          \/ CycleMessageRaises(column)
          \/ CyclePlotRaises(column)
    \/ MonitorInterrupt

SpecMonitor == InitMonitor /\ [][NextMonitor]_vars


\* ==================================================================== claims
\* the series a reader finds in the file
Stored(f) == IF f.kind = "csv" THEN f.rows ELSE <<>>

\* a missing, empty or sorted duplicate-free file
GoodSeries(f) ==
    \/ f.kind \in {"missing", "empty"}
    \/ f.kind = "csv" /\ StrictlyIncreasing(f.rows)

AtRest == pc # "writing"

\* a tick whose live fetch returned a price and that went on to build rows
TickWithPrice == obs.op = "tick" /\ obs.live # None /\ obs.status # "raised"

\* price of the last row of `s` that carries timestamp `t`
LastSupplied(s, t) ==
    s[CHOOSE i \in DOMAIN s :
          /\ s[i].timestamp = t
          /\ \A j \in DOMAIN s : s[j].timestamp = t => j <= i].price

\* what get_last_timestamp answers when nothing is cached
FreshLast(f, now_ts) == get_last_timestamp(f, 0, None, None, now_ts).result

\* C1: whenever a tick or a backfill merge has acted on a missing, empty or
\* sorted duplicate-free file, the persisted series has strictly increasing
\* (hence pairwise distinct) timestamps.
C1_StrictlyIncreasingSeries ==
    (AtRest /\ obs.op # "none" /\ GoodSeries(obs.before)) => GoodSeries(file)

\* C2: a tick whose write failed or was interrupted leaves either the series
\* that was stored before the tick or the complete merged result.
C2_AllOrNothing ==
    (AtRest /\ obs.op = "tick" /\ obs.status \in {"saveerror", "interrupted"})
        => (Stored(file) = Stored(obs.before) \/ Stored(file) = pending)

\* C3: a tick or backfill merge that finds the existing file unparseable does
\* not replace it: if the operation runs to completion the file is what it
\* was before.
C3_UnreadableStoreUnchanged ==
    (obs.op \in {"tick", "recovered"} /\ obs.before.kind \in {"garbage", "nocol"}
         /\ obs.status = "done")
        => file = obs.before

\* C4: after a completed merge, every timestamp of the batch is stored with
\* the price of the last batch row that carries it.
C4_LastWriteWins ==
    (obs.status = "done")
        => \A t \in Timestamps(obs.rows) :
               PricesAt(Stored(file), t) = {Round2(LastSupplied(obs.rows, t))}

\* C5: merging the batch that the last completed merge already merged leaves
\* the stored series as it is.
C5_MergeIdempotent ==
    (obs.status = "done" /\ obs.repeat) => file = obs.before

\* C6: after a tick that backfilled missing minutes from a source holding
\* every minute, gap detection reports no gap between the old last
\* timestamp and now.
C6_BackfillClosesGap ==
    (TickWithPrice /\ obs.status = "done" /\ obs.branch = "gap"
         /\ obs.answer = "complete")
        => \A i \in DOMAIN detect_missing_periods(file) :
               LET g == detect_missing_periods(file)[i]
               IN ~(g.start >= obs.last[1] /\ g.end <= obs.at)

\* C7: minutes that a tick found missing and could not fetch, and that are
\* still absent from the store, are requested from the historical source by
\* the next tick whose live fetch succeeds.
C7_FailedBackfillRetried ==
    (TickWithPrice /\ obs.owed # {})
        => /\ obs.request # None
           /\ obs.owed \subseteq obs.request[1].start..(obs.request[1].end - 1)

\* C8 as stated: between ticks the cached last timestamp equals what a fresh
\* read of the file returns.
C8_CacheAlwaysFresh ==
    (AtRest /\ cache # None) => cache = Some(FreshLast(file, now))

\* C8 amended: whenever get_last_timestamp would answer from the cache the
\* cached value equals what a fresh read of the file returns, and the last
\* timestamp every tick worked with is the one a freshly started recorder
\* reads from the same file at the same minute.
C8_CacheTransparent ==
    /\ (file.kind # "missing" /\ UseCache(cache, cache_mtime, mtime))
           => cache = Some(FreshLast(file, now))
    /\ TickWithPrice => obs.last = Some(FreshLast(obs.before, obs.at))

C8_Witness == TickWithPrice /\ obs.cached /\ obs.status = "done"

\* C9: on a tick where lastTimestamp + 1 minute is later than now the
\* historical source is not called, the batch is exactly the row (now, live
\* price), and a completed write leaves a row timestamped now in the store.
C9_ClockSkewGuard ==
    (TickWithPrice /\ obs.last[1] + 1 > obs.at)
        => /\ obs.request = None
           /\ obs.rows = <<Row(obs.at, Round2(obs.live[1]))>>
           /\ (obs.status = "done" => obs.at \in Timestamps(Stored(file)))

C9_Witness ==
    TickWithPrice /\ obs.status = "done" /\ obs.last = Some(obs.at + 2)

\* C10: a tick that finds no prior sample (file missing, empty or header
\* only) reports no clock skew, calls no historical fetch and writes exactly
\* the current-minute sample.
C10_FreshStart ==
    (TickWithPrice /\ ~HasFrame(obs.before) /\ obs.before.kind \in {"missing", "empty", "csv"})
        => /\ ~obs.warned
           /\ obs.request = None
           /\ obs.rows = <<Row(obs.at, Round2(obs.live[1]))>>

\* the current-minute row of a tick
LiveRow == Row(obs.at, Round2(obs.live[1]))

\* C11: in the gap branch every row of the batch but the last is a historical
\* row whose aligned timestamp is strictly less than now, and the last row,
\* the only one timestamped now, is the one built from the live fetch.
C11_LiveRowIsNow ==
    TickWithPrice /\ obs.branch = "gap" =>
        LET n == Len(obs.rows)
        IN /\ n >= 1
           /\ obs.rows[n] = LiveRow
           /\ \A i \in 1..(n - 1) :
                 /\ obs.rows[i].timestamp < obs.at
                 /\ \E j \in DOMAIN obs.hist :
                       obs.rows[i] = Row(ts_local(obs.hist[j].timestamp),
                                         Round2(obs.hist[j].price))

\* a gap tick whose answer held a candle of the current minute, dropped,
\* next to an earlier one, kept
C11_Witness ==
    /\ TickWithPrice /\ obs.branch = "gap" /\ obs.status = "done"
    /\ Len(obs.rows) >= 2
    /\ \E j \in DOMAIN obs.hist : ts_local(obs.hist[j].timestamp) = obs.at

\* C12: a historical fetch that fails (on the first page or on a later one) or
\* returns nothing leaves the batch at exactly the current-minute row; every
\* row of a batch carries the live price or the price of a historical point,
\* and every row stored by a completed tick was stored before or is a row of
\* the batch.
C12_NoFabricatedRows ==
    TickWithPrice =>
        /\ obs.answer \in {"fail", "faillate", "empty"} => obs.rows = <<LiveRow>>
        /\ \A i \in DOMAIN obs.rows :
              obs.rows[i].price \in {Round2(obs.live[1])}
                  \cup {Round2(obs.hist[j].price) : j \in DOMAIN obs.hist}
        /\ obs.status = "done" =>
              \A i \in DOMAIN Stored(file) :
                  \/ \E k \in DOMAIN Stored(obs.before) :
                        Stored(file)[i] = Stored(obs.before)[k]
                  \/ \E k \in DOMAIN obs.rows : Stored(file)[i] = obs.rows[k]

\* a completed gap tick whose historical fetch failed on a later page
C12_Witness ==
    TickWithPrice /\ obs.answer = "faillate" /\ obs.status = "done"

\* C13: a tick whose live fetch fails changes the consecutive-failure counter
\* and nothing else: the file, its modification time, the cached last
\* timestamp and the write in progress are as before, and no historical
\* request is made.
C13_FailedFetchWritesNothing ==
    [][(pc = "idle" /\ obs'.op = "tick" /\ obs'.status = "nofetch") =>
          /\ file' = file /\ mtime' = mtime
          /\ cache' = cache /\ cache_mtime' = cache_mtime
          /\ pending' = pending /\ written' = written
          /\ obs'.request = None /\ obs'.sent = None /\ obs'.rows = <<>>
          /\ consecutive_failures' = consecutive_failures + 1]_vars

\* a failed tick beyond the threshold
C13_Witness ==
    /\ obs.op = "tick" /\ obs.status = "nofetch" /\ pc = "sleeping"
    /\ consecutive_failures > 3

\* C14: the counter equals the number of live fetches that failed since the
\* last successful one, and a failing tick reports at the escalated level
\* exactly when that number has reached 3.
C14_CounterCountsFailures ==
    /\ consecutive_failures = streak
    /\ (pc = "sleeping" /\ obs.op = "tick" /\ obs.status = "nofetch")
          => (obs.escalated <=> streak >= 3)

\* the third failure in a row, reported at the escalated level, after a
\* failure that was not
C14_Witness ==
    /\ pc = "sleeping" /\ obs.op = "tick" /\ obs.status = "nofetch"
    /\ streak = 3 /\ obs.escalated

\* C15: the loop ends only on operator interrupt: whatever fails in a tick,
\* the recorder is waiting for a tick, in a tick, or stopped by the operator.
C15_EndsOnlyOnInterrupt ==
    pc \in {"idle", "writing", "sleeping", "stopped"}

\* the timestamp of the last stored row, if the store holds a sample
PriorSample(f) ==
    IF Stored(f) # <<>> THEN Some(Stored(f)[Len(Stored(f))].timestamp) ELSE None

\* C16: reading the last timestamp never raises; on a store that is missing,
\* empty or unreadable it answers now (no prior sample), otherwise the
\* timestamp of the last stored row.
C16_LastTimestampNeverFails ==
    (obs.op = "tick" /\ obs.live # None) =>
        /\ ~obs.raised
        /\ obs.last = IF PriorSample(obs.before) = None
                      THEN Some(obs.at)
                      ELSE PriorSample(obs.before)

\* the pairs of chronologically consecutive samples of `rows` that lie more
\* than 1.5 times `seconds` apart
ExpectedGaps(rows, seconds) ==
    LET T == Timestamps(rows)
    IN {[start |-> a, end |-> b] : a \in T, b \in T} \cap
       {g \in [start : T, end : T] :
           /\ g.start < g.end
           /\ ~\E c \in T : g.start < c /\ c < g.end
           /\ 2 * 60 * (g.end - g.start) > 3 * seconds}

\* `periods` lists exactly the expected gaps, each once, earliest first
ListsGaps(periods, rows, seconds) ==
    /\ {periods[k] : k \in DOMAIN periods} = ExpectedGaps(rows, seconds)
    /\ \A k \in 1..(Len(periods) - 1) : periods[k].start < periods[k + 1].start

\* C17: gap detection reports a pair of consecutive samples exactly when
\* their interval is strictly greater than 1.5 times the expected interval,
\* as (start = earlier sample, end = later sample), in chronological order;
\* for samples at T, T+1, T+5 minutes and a 60 s interval it reports the one
\* gap (T+1, T+5).
C17_GapDetection ==
    /\ probe.periods # None => ListsGaps(probe.periods[1], probe.rows, probe.seconds)
    /\ probe.older # None => ListsGaps(probe.older[1], probe.rows, probe.seconds)
    /\ (/\ probe.periods # None
        /\ probe.seconds = 60
        /\ Len(probe.rows) = 3
        /\ probe.rows[2].timestamp = probe.rows[1].timestamp + 1
        /\ probe.rows[3].timestamp = probe.rows[1].timestamp + 5)
          => probe.periods[1] = <<[start |-> probe.rows[2].timestamp,
                                   end |-> probe.rows[3].timestamp]>>

\* samples at 0, 1 and 5 minutes with a 60 s interval, examined by both
\* versions, one gap reported
C17_Witness ==
    /\ probe.seconds = 60
    /\ Timestamps(probe.rows) = {0, 1, 5} /\ Len(probe.rows) = 3
    /\ probe.periods # None /\ probe.older # None
    /\ Len(probe.periods[1]) = 1

\* live_signal_monitor.main, line 154: what pd.read_csv finds in the file
MonitorRead == file

\* C18: whenever the monitor reads the file it finds the series as it was
\* before the write in progress or as it is after it, never the file in the
\* middle of a write.
C18_ReaderSeesCompleteSeries ==
    pc = "writing" => (MonitorRead = obs.before \/ MonitorRead = Csv(pending))

\* C19: every timestamp of a batch, and so every timestamp of a store that
\* started minute-aligned, is a whole minute of the reference timezone; the
\* last row of the batch is the minute the clock is in.
C19_MinuteAligned ==
    /\ \A t \in probe.store : t % 60 = 0
    /\ \A i \in DOMAIN probe.batch : probe.batch[i] % 60 = 0
    /\ probe.batch # <<>> =>
          LET now_ts == probe.batch[Len(probe.batch)]
          IN now_ts <= probe.clock + JstSeconds /\ probe.clock + JstSeconds < now_ts + 60

\* a tick in the middle of a minute that backfilled a historical point whose
\* open time is not a whole minute
C19_Witness ==
    /\ Len(probe.batch) >= 2
    /\ probe.clock % 60 # 0
    /\ \E i \in DOMAIN probe.hist :
          /\ probe.hist[i] % 60 # 0
          /\ ts_local_at(probe.hist[i]) = probe.batch[1]

\* C20: the range sent to the historical source denotes the instants of the
\* recorder's window [expected-next, now) of the reference timezone, and a
\* complete answer puts every missing minute of the window in the store.
C20_AlignmentAgreed ==
    (TickWithPrice /\ obs.branch = "gap") =>
        /\ obs.sent = Some([startTime |-> obs.request[1].start - JstOffset,
                            endTime |-> obs.request[1].end - JstOffset])
        /\ (obs.answer = "complete" /\ obs.status = "done") =>
              \A t \in obs.request[1].start..(obs.request[1].end - 1) :
                  t \in Timestamps(Stored(file))

\* C21: fetch_minute_prices(start, end) returns the candles the source holds
\* with open time in [start, end), each once, earliest first, and no other.
C21_CandlesOfRange ==
    probe.status = "returned" =>
        probe.results = Ascending({u \in probe.held :
                                      probe.start_ms <= u /\ u < probe.end_ms})

\* a moving average that is present and strictly below another that is
Below(a, b) ==
    /\ a # None /\ b # None
    /\ a[1].num * b[1].den < b[1].num * a[1].den

\* the crossover rule on the averages of the previous and the current row;
\* `previous` is None for a row that has no previous row
CrossoverRule(previous, current) ==
    IF previous # None /\ Below(previous[1].short, previous[1].long)
                       /\ Below(current.long, current.short)
    THEN "BUY"
    ELSE IF previous # None /\ Below(previous[1].long, previous[1].short)
                            /\ Below(current.short, current.long)
    THEN "SELL"
    ELSE "HOLD"

Averages(df, i) == [short |-> df.short_ma[i], long |-> df.long_ma[i]]

\* C22: every row carries one signal of BUY, SELL, HOLD, the one the strict
\* crossover rule gives for the averages of the row and of the row before
\* it (HOLD where the rule's previous row does not exist).
C22_CrossoverRule ==
    probe.stage = "signals" =>
        /\ Len(probe.out.signal) = Len(probe.out.price)
        /\ \A i \in DOMAIN probe.out.signal :
              probe.out.signal[i] =
                  CrossoverRule(IF i = 1 THEN None
                                ELSE Some(Averages(probe.out, i - 1)),
                                Averages(probe.out, i))

\* C23: the first row of the series gets HOLD.
C23_FirstRowHolds ==
    (probe.stage = "signals" /\ Len(probe.out.signal) >= 1)
        => probe.out.signal[1] = "HOLD"

RECURSIVE PriceSum(_, _, _)
PriceSum(price, lo, hi) ==
    IF hi < lo THEN 0 ELSE price[lo] + PriceSum(price, lo + 1, hi)

\* `ma` is absent on the first window - 1 rows and on every other row the
\* mean of the `window` prices that end at the row
IsMovingAverage(ma, price, window) ==
    /\ Len(ma) = Len(price)
    /\ \A i \in DOMAIN ma :
          IF i <= window - 1 THEN ma[i] = None
          ELSE /\ ma[i] # None
               /\ ma[i][1].num * window
                      = PriceSum(price, i - window + 1, i) * ma[i][1].den

\* C25: the moving average at a row is the arithmetic mean of the last
\* `window` prices up to the row and absent on the first window - 1 rows;
\* prices 1, 2, 3, 4 and window 3 give absent, absent, 2, 3.
C25_MovingAverage ==
    probe.averaged =>
        /\ IsMovingAverage(probe.out.short_ma, probe.out.price, probe.short_window)
        /\ IsMovingAverage(probe.out.long_ma, probe.out.price, probe.long_window)
        /\ (probe.out.price = <<1, 2, 3, 4>> /\ probe.short_window = 3) =>
              /\ probe.out.short_ma[1] = None /\ probe.out.short_ma[2] = None
              /\ probe.out.short_ma[3] # None /\ probe.out.short_ma[4] # None
              /\ probe.out.short_ma[3][1].num = 2 * probe.out.short_ma[3][1].den
              /\ probe.out.short_ma[4][1].num = 3 * probe.out.short_ma[4][1].den

\* prices 1, 2, 3, 4 annotated with windows 3 and 2
C25_Witness ==
    /\ probe.averaged /\ probe.out.price = <<1, 2, 3, 4>>
    /\ probe.short_window = 3 /\ probe.long_window = 2

\* C26: calculate_moving_averages and generate_signals leave the frame they
\* are given as it was.
C26_SeriesUnchanged ==
    probe.stage \in {"averages", "signals"} => probe.df = probe.given

\* C27: on each row, BUY while flat sets position to 1 and takes the price
\* from cash, SELL while long sets position to 0 and adds the price to cash,
\* and any other row leaves both as they are; a Backtester constructed with
\* capital 100000 ends the run over prices 100, 95, 105, 110 with signals
\* HOLD, BUY, HOLD, SELL with cash 100015 and position 0.
C27_TradeRule ==
    /\ [][probe'.row = probe.row + 1 =>
            LET signal == probe.signal[probe.row]
                price == probe.price[probe.row]
            IN IF signal = "BUY" /\ probe.position = 0
               THEN probe'.position = 1 /\ probe'.cash = probe.cash - price
               ELSE IF signal = "SELL" /\ probe.position = 1
               THEN probe'.position = 0 /\ probe'.cash = probe.cash + price
               ELSE probe'.position = probe.position /\ probe'.cash = probe.cash]_vars
    /\ []((/\ probe.status = "returned" /\ probe.run = 1
           /\ probe.initial_capital = 100000
           /\ probe.price = <<100, 95, 105, 110>>
           /\ probe.signal = <<"HOLD", "BUY", "HOLD", "SELL">>)
             => (probe.cash = 100015 /\ probe.position = 0))

\* the example run has returned, and a run in which a BUY came while long
C27_Witness ==
    /\ probe.status = "returned" /\ probe.run = 1
    /\ probe.initial_capital = 100000
    /\ probe.price = <<100, 95, 105, 110>>
    /\ probe.signal = <<"HOLD", "BUY", "HOLD", "SELL">>

\* position and cash after the first i rows of a run that starts flat with
\* the initial capital
RECURSIVE Holding(_, _, _, _)
Holding(signal, price, capital, i) ==
    IF i = 0 THEN [position |-> 0, cash |-> capital]
    ELSE LET h == Holding(signal, price, capital, i - 1)
         IN IF signal[i] = "BUY" /\ h.position = 0
            THEN [position |-> 1, cash |-> h.cash - price[i]]
            ELSE IF signal[i] = "SELL" /\ h.position = 1
            THEN [position |-> 0, cash |-> h.cash + price[i]]
            ELSE h

\* C28: after run_backtest over n rows the trace holds n entries, the i-th
\* being cash + position * price after the trade of row i; it is the initial
\* capital on every row before the first executed BUY.
C28_TracePerRow ==
    probe.status = "returned" =>
        /\ Len(probe.portfolio_value) = Len(probe.price)
        /\ \A i \in DOMAIN probe.portfolio_value :
              LET h == Holding(probe.signal, probe.price, probe.initial_capital, i)
              IN /\ probe.portfolio_value[i] = h.cash + h.position * probe.price[i]
                 /\ (\A j \in 1..i : probe.signal[j] # "BUY")
                       => probe.portfolio_value[i] = probe.initial_capital

\* two fractions of positive denominator with the same value
SameFraction(a, b) == a.num * b.den = b.num * a.den

\* C29: a second run_backtest over the same series on the same Backtester
\* returns the final value, total return, max drawdown and win rate of the
\* first.
C29_SameResultAgain ==
    Len(probe.performance) >= 2 =>
        LET first == probe.performance[1]
            again == probe.performance[2]
        IN /\ again.final_value = first.final_value
           /\ SameFraction(again.total_return, first.total_return)
           /\ SameFraction(again.max_drawdown, first.max_drawdown)
           /\ SameFraction(again.win_rate, first.win_rate)

\* C30: the max drawdown reported for a run over a non-empty series is a
\* fraction between 0 and 1.
C30_DrawdownIsFraction ==
    \A k \in DOMAIN probe.performance :
        LET d == probe.performance[k].max_drawdown
        IN d.den > 0 /\ 0 <= d.num /\ d.num <= d.den

\* the drawdown at entry i of a trace: (running peak - value) / running peak,
\* the running peak being the largest value among the entries 1..i
DrawdownAt(trace, i) ==
    LET running_peak == SetMax({trace[j] : j \in 1..i})
    IN Fraction(running_peak - trace[i], running_peak)

\* C31: the max drawdown is the largest drawdown of an entry of the trace;
\* for the trace 100, 95, 90, 85, 90, 95, 100 it is 0.15.
C31_MaxDrawdown ==
    probe.status = "returned" =>
        /\ \A i \in DOMAIN probe.portfolio_value :
              ~FractionGt(DrawdownAt(probe.portfolio_value, i), probe.max_drawdown)
        /\ \E i \in DOMAIN probe.portfolio_value :
              SameFraction(DrawdownAt(probe.portfolio_value, i), probe.max_drawdown)
        /\ probe.portfolio_value = <<100, 95, 90, 85, 90, 95, 100>>
              => SameFraction(probe.max_drawdown, Fraction(15, 100))

\* the drawdown of the example trace has been computed
C31_Witness ==
    /\ probe.status = "returned"
    /\ probe.portfolio_value = <<100, 95, 90, 85, 90, 95, 100>>

\* C32: the win rate is the number of BUY rows that come right after a SELL
\* row, divided by the number of rows, and lies between 0 and 1.
C32_WinRate ==
    \A k \in DOMAIN probe.performance :
        LET w == probe.performance[k].win_rate
            n == Len(probe.signal)
        IN /\ w.den = n
           /\ w.num = Cardinality({i \in 2..n : /\ probe.signal[i] = "BUY"
                                                /\ probe.signal[i - 1] = "SELL"})
           /\ 0 <= w.num /\ w.num <= w.den

\* a run over a series that starts with BUY, ends with SELL and has a BUY
\* right after a SELL in between
C32_Witness ==
    /\ probe.status = "returned" /\ Len(probe.signal) >= 4
    /\ probe.signal[1] = "BUY" /\ probe.signal[Len(probe.signal)] = "SELL"
    /\ probe.performance[1].win_rate.num = 1

\* C33: the backtester answers an empty series with a designated outcome,
\* not with an exception or undefined statistics.
C33_EmptySeriesDefined ==
    (probe.price = <<>> /\ probe.status # "running") => probe.status = "empty"

\* the trades executed in run `run`
ExecutedIn(run) == SelectSeq(probe.executed, LAMBDA x : x.run = run)

\* C34: the final value is the last trace entry, cash + position * last
\* price, and the total return is (final value - initial capital) / initial
\* capital * 100; a run whose only trades are a BUY and then a SELL at a
\* higher price reports a final value above the initial capital and a
\* positive total return.
C34_FinalValueAndReturn ==
    probe.status = "returned" =>
        LET p == probe.performance[Len(probe.performance)]
            n == Len(probe.price)
            trades == ExecutedIn(probe.run)
        IN /\ p.final_value = probe.portfolio_value[Len(probe.portfolio_value)]
           /\ p.final_value = probe.cash + probe.position * probe.price[n]
           /\ SameFraction(p.total_return,
                           Fraction((p.final_value - probe.initial_capital) * 100,
                                    probe.initial_capital))
           /\ (/\ Len(trades) = 2
               /\ trades[1].side = "BUY" /\ trades[2].side = "SELL"
               /\ trades[2].price > trades[1].price)
                 => /\ p.final_value > probe.initial_capital
                    /\ p.total_return.num > 0 /\ p.total_return.den > 0

\* the example run: bought at 95, sold at 110, final value 100015
C34_Witness ==
    /\ probe.status = "returned" /\ probe.run = 1
    /\ probe.initial_capital = 100000
    /\ probe.executed = <<[run |-> 1, side |-> "BUY", price |-> 95],
                          [run |-> 1, side |-> "SELL", price |-> 110]>>
    /\ probe.performance[1].final_value = 100015

RECURSIVE NetPaid(_)
NetPaid(executed) ==
    IF executed = <<>> THEN 0
    ELSE LET x == executed[Len(executed)]
         IN NetPaid(SubSeq(executed, 1, Len(executed) - 1))
                + (IF x.side = "BUY" THEN x.price ELSE 0 - x.price)

C36_TradesKeepValue ==
    [][(probe'.row = probe.row + 1 /\ probe.row > 1) =>
          LET n == Len(probe.portfolio_value)
          IN probe'.portfolio_value[n + 1] - probe.portfolio_value[n]
                 = probe.position * (probe.price[probe.row]
                                         - probe.price[probe.row - 1])]_vars

\* a BUY executed on a later row of a run at a price other than the row
\* before it, the value being that of the row before
C36_Witness ==
    /\ probe.row > 2 /\ probe.status = "running" /\ probe.executed # <<>>
    /\ probe.executed[Len(probe.executed)]
           = [run |-> probe.run, side |-> "BUY", price |-> probe.price[probe.row - 1]]
    /\ probe.signal[probe.row - 1] = "BUY"
    /\ probe.price[probe.row - 1] # probe.price[probe.row - 2]
    /\ probe.portfolio_value[Len(probe.portfolio_value)]
           = probe.portfolio_value[Len(probe.portfolio_value) - 1]

\* C37: a completed tick on a readable store changes only the timestamps of
\* its batch: every sample stored before whose timestamp is not in the batch
\* is still stored with its price, and every timestamp stored before is
\* still stored.
C37_OnlyBatchChanges ==
    (AtRest /\ TickWithPrice /\ obs.status = "done" /\ obs.before.kind = "csv")
        => \A k \in DOMAIN obs.before.rows :
               LET old == obs.before.rows[k]
               IN /\ old.timestamp \in Timestamps(Stored(file))
                  /\ old.timestamp \notin Timestamps(obs.rows)
                        => \E i \in DOMAIN Stored(file) : Stored(file)[i] = old

\* C38: on a completed tick that found last timestamp + 1 minute = now the
\* historical source is not called and the series grows by exactly one row,
\* (now, live price), which is its last row; after every completed tick
\* outside the clock-skew branch the last timestamp of the store is now.
C38_SteadyTickAppendsOne ==
    (AtRest /\ TickWithPrice /\ obs.status = "done") =>
        /\ obs.last = Some(obs.at - 1)
              => /\ obs.request = None /\ obs.sent = None
                 /\ Stored(file) = Append(Stored(obs.before), LiveRow)
        /\ obs.branch # "skew" => FreshLast(file, obs.at) = obs.at

\* C39: fetch_minute_prices ends for every start and end: it makes no
\* request when start >= end, and otherwise the loop ends, by a return or
\* an exception, whatever pages the source answers with.
C39_PagingEnds ==
    /\ [](probe.start_ms >= probe.end_ms => ~probe.requested)
    /\ <>(probe.status # "paging")

\* C40: the monitor notifies only on change: a cycle that runs through sends
\* a notification exactly when the latest signal differs from the signal of
\* the last notification sent, no two consecutive notifications carry the
\* same signal, and a cycle that fails leaves the remembered signal as it
\* was.
C40_NotifyOnChange ==
    LET sent == probe.notifications
        n == Len(sent)
        before == IF probe.outcome = "notified" THEN SubSeq(sent, 1, n - 1) ELSE sent
        last_sent == IF before = <<>> THEN None ELSE Some(before[Len(before)])
    IN /\ \A i \in 1..(n - 1) : sent[i] # sent[i + 1]
       /\ probe.outcome \in {"notified", "quiet"}
             => (probe.outcome = "notified" <=> probe.current # last_sent)
       /\ probe.outcome = "failed" => probe.last_signal = probe.remembered

====
